---- MODULE Spec2Model ----
(***************************************************************************)
(* Model of stdresult: the synchronous Result container (Ok / Err and the  *)
(* combinators attached by implementExt), the function wrappers (fromFn,   *)
(* call), the AsyncResult built over the host's promises                   *)
(* (implementAsyncExt, defer, fromPromise, fromAsyncFn, callAsync) and the *)
(* error classifier (errorHandlers.catch).                                 *)
(*                                                                         *)
(* Result objects live in a heap (a sequence; an object's identity is its  *)
(* index), because the code distinguishes "returns the argument itself"    *)
(* (and / or / andThen / orElse) from "rewraps through ctor.Ok / ctor.Err".*)
(* `last` records the most recent call: receiver, arguments, whether it    *)
(* returned or threw, what it returned or threw, and the callbacks that    *)
(* were invoked during the call, in order.  `wrappers` holds the functions *)
(* fromFn returned; `proms` the promises, `mq` the host's microtask queue  *)
(* and `log` the callbacks that microtasks have run, in order.             *)
(***************************************************************************)
EXTENDS Integers, Sequences, FiniteSets, TLC

VARIABLES heap, last, wrappers, proms, mq, log

vars == <<heap, last, wrappers, proms, mq, log>>

\* ------------------------------------------------------------------ bounds
MaxVal == 1     \* plain payloads are 0..MaxVal
MaxHeap == 2    \* number of Result objects ever allocated in a run

\* ---------------------------------------------------------------- payloads
\* A JavaScript value held by a Result or returned by a call.
Nums == 0..MaxVal

Plain(n) == [type |-> "plain", n |-> n]

Undefined == [type |-> "undefined", n |-> 0]

Bool(b) == [type |-> "boolean", n |-> IF b THEN 1 ELSE 0]

\* tagged error records {type, error} as built by callers / the globals
Tagged(t, n) == [type |-> t, n |-> n]

Values == {Plain(n) : n \in Nums}

Errors == Values \cup {Tagged("SyntaxError", 0)}

Msgs == {"m1", "m2"}

\* -------------------------------------------------------------- exceptions
NoExc == [name |-> "none", message |-> "", cause |-> Undefined]

\* new TypeError(msg) with Object.defineProperty(error, 'cause', {value})
TypeErrorWithCause(msg, cause) ==
  [name |-> "TypeError", message |-> msg, cause |-> cause]

\* the value a raising user callback throws
BoomExc == [name |-> "Boom", message |-> "boom", cause |-> Undefined]

\* -------------------------------------------------------- error classifier
\* A thrown value is a payload whose `type` is the class it was constructed
\* from; numbers, strings and undefined are values of no exception class.
\* Records built by the library ({error, type}) are plain objects.
SpecificKinds ==
  {"TypeError", "SyntaxError", "EvalError", "RangeError", "ReferenceError",
   "URIError", "DOMException"}

\* user classes: one extending a specific kind, one extending Error directly
UserClasses == {"MyTypeError", "MyRangeError", "CustomError"}

NonErrorTypes == {"plain", "string", "undefined"}

\* the classes on the prototype chain of a value constructed from class t
ProtoChain(t) ==
  CASE t \in SpecificKinds  -> {t, "Error"}
    [] t = "Error"          -> {"Error"}
    [] t = "MyTypeError"    -> {"MyTypeError", "TypeError", "Error"}
    [] t = "MyRangeError"   -> {"MyRangeError", "RangeError", "Error"}
    [] t = "CustomError"    -> {"CustomError", "Error"}
    [] OTHER                -> {}

\* error instanceof C
InstanceOf(error, C) ==
  /\ "n" \in DOMAIN error
  /\ C \in ProtoChain(error.type)

\* the values a platform call or a user function can throw
Thrown ==
  {[type |-> t, n |-> n] :
     t \in SpecificKinds \cup UserClasses \cup NonErrorTypes \cup {"Error"},
     n \in Nums}

\* a classifier whose last branch tags everything 'Error'
catch_noUnknown(error) ==
  IF InstanceOf(error, "TypeError") THEN [error |-> error, type |-> "TypeError"]
  ELSE IF InstanceOf(error, "SyntaxError") THEN [error |-> error, type |-> "SyntaxError"]
  ELSE IF InstanceOf(error, "EvalError") THEN [error |-> error, type |-> "EvalError"]
  ELSE IF InstanceOf(error, "RangeError") THEN [error |-> error, type |-> "RangeError"]
  ELSE IF InstanceOf(error, "ReferenceError") THEN [error |-> error, type |-> "ReferenceError"]
  ELSE IF InstanceOf(error, "URIError") THEN [error |-> error, type |-> "URIError"]
  ELSE IF InstanceOf(error, "DOMException") THEN [error |-> error, type |-> "DOMException"]
  ELSE [error |-> error, type |-> "Error"]

\* a classifier that tests the generic kind before the specific ones
catch_genericFirst(error) ==
  IF InstanceOf(error, "Error") THEN [error |-> error, type |-> "Error"]
  ELSE catch_noUnknown(error)

\* errorHandlers.catch: the instanceof chain, top to bottom
catch(error) ==
  IF InstanceOf(error, "TypeError") THEN [error |-> error, type |-> "TypeError"]
  ELSE IF InstanceOf(error, "SyntaxError") THEN [error |-> error, type |-> "SyntaxError"]
  ELSE IF InstanceOf(error, "EvalError") THEN [error |-> error, type |-> "EvalError"]
  ELSE IF InstanceOf(error, "RangeError") THEN [error |-> error, type |-> "RangeError"]
  ELSE IF InstanceOf(error, "ReferenceError") THEN [error |-> error, type |-> "ReferenceError"]
  ELSE IF InstanceOf(error, "URIError") THEN [error |-> error, type |-> "URIError"]
  ELSE IF InstanceOf(error, "DOMException") THEN [error |-> error, type |-> "DOMException"]
  ELSE IF InstanceOf(error, "Error") THEN [error |-> error, type |-> "Error"]
  ELSE [error |-> error, type |-> "unknown"]

\* unsafeCatch that raises the classified record instead of the value
unsafeCatch_throwsRecord(error) ==
  LET nativeError == catch(error)
  IN  [raised |-> nativeError.type = "unknown",
       exc    |-> IF nativeError.type = "unknown" THEN nativeError ELSE NoExc,
       id     |-> 0,
       val    |-> IF nativeError.type = "unknown" THEN Undefined
                  ELSE nativeError]

\* errorHandlers.unsafeCatch: classify, raise the value itself when the tag
\* is 'unknown', hand the record back otherwise
unsafeCatch(error) ==
  LET nativeError == catch(error)
  IN  [raised |-> nativeError.type = "unknown",
       exc    |-> IF nativeError.type = "unknown" THEN nativeError.error
                  ELSE NoExc,
       id     |-> 0,
       val    |-> IF nativeError.type = "unknown" THEN Undefined
                  ELSE nativeError]

\* the legacy code constants every DOMException instance inherits from its
\* prototype
ABORT_ERR == 20

NO_DATA_ALLOWED_ERR == 6

\* a DOMException instance with the given name
DOMExc(name) == [type |-> "DOMException", n |-> 0, name |-> name]

\* error.ABORT_ERR / error.NO_DATA_ALLOWED_ERR: the inherited constant on a
\* DOMException, undefined (falsy) on anything else
PropABORT_ERR(error) ==
  IF InstanceOf(error, "DOMException") THEN ABORT_ERR ELSE 0

PropNO_DATA_ALLOWED_ERR(error) ==
  IF InstanceOf(error, "DOMException") THEN NO_DATA_ALLOWED_ERR ELSE 0

\* the callback of fetch's second mapErr
narrow(err) ==
  IF err.type = "DOMException"
  THEN IF PropABORT_ERR(err.error) # 0
       THEN [raised |-> FALSE, exc |-> NoExc, id |-> 0,
             val |-> [err EXCEPT !.type = "AbortError"]]
       ELSE IF PropNO_DATA_ALLOWED_ERR(err.error) # 0
       THEN [raised |-> FALSE, exc |-> NoExc, id |-> 0,
             val |-> [err EXCEPT !.type = "NotAllowedError"]]
       ELSE [raised |-> TRUE, exc |-> err.error, id |-> 0, val |-> Undefined]
  ELSE [raised |-> FALSE, exc |-> NoExc, id |-> 0, val |-> err]

\* --------------------------------------------------------- user callbacks
\* value -> value callbacks handed to mapOk, mapErr, mapOr, mapOrElse,
\* unwrapOrElse, inspectOk, inspectErr
Fns == {"succ", "const0", "id", "boom"}

Succ(x) == [type |-> x.type, n |-> (x.n + 1) % (MaxVal + 1)]

CallFn(fn, x) ==
  CASE fn = "unsafeCatch" -> unsafeCatch(x)
    [] fn = "narrow" -> narrow(x)
    [] OTHER ->
  [raised |-> (fn = "boom"),
   exc    |-> IF fn = "boom" THEN BoomExc ELSE NoExc,
   id     |-> 0,
   val    |-> CASE fn = "succ"   -> Succ(x)
                [] fn = "const0" -> Plain(0)
                [] fn = "id"     -> x
                [] fn = "catch"  -> catch(x)
                [] OTHER         -> Undefined]

\* value -> Result callbacks handed to andThen / orElse
RFns == {"okSucc", "errOf", "validate", "boom"}

\* one invocation of a user callback: its argument and what it gave back
\* (a plain value, or the identity of the Result it returned)
Invocation(fn, x, c) ==
  [fn |-> fn, arg |-> x, raised |-> c.raised, ret |-> c.val, res |-> c.id]

\* ------------------------------------------------------------ constructors
\* An object carries the two guard closures (what isErr() / isOk() answer)
\* and the getter-backed payload property; the property the variant does
\* not define reads as undefined.  `ctor` and `arg` are history fields: the
\* constructor that built the object and the argument it was given.
Alloc(h, obj) == [heap |-> Append(h, obj), id |-> Len(h) + 1]

\* Err built from a pasted copy of Ok's guards
Err_pastedGuards(h, error) ==
  Alloc(h, [isErr |-> TRUE, isOk |-> TRUE, value |-> Undefined,
            error |-> error, ctor |-> "Err", arg |-> error])

Err(h, error) ==
  Alloc(h, [isErr |-> TRUE, isOk |-> FALSE, value |-> Undefined,
            error |-> error, ctor |-> "Err", arg |-> error])

Ok(h, value) ==
  Alloc(h, [isErr |-> FALSE, isOk |-> TRUE, value |-> value,
            error |-> Undefined, ctor |-> "Ok", arg |-> value])

\* a Result-returning callback: it builds its Result through the ctor
CallRFn(h, fn, x) ==
  LET made == CASE fn = "okSucc"   -> Ok(h, Succ(x))
                [] fn = "errOf"    -> Err(h, x)
                [] fn = "validate" -> IF x.n % 2 = 1
                                      THEN Err(h, Tagged("ValidationError", x.n))
                                      ELSE Ok(h, x)
                [] OTHER           -> [heap |-> h, id |-> 0]
  IN  [raised |-> (fn = "boom"),
       exc    |-> IF fn = "boom" THEN BoomExc ELSE NoExc,
       val    |-> Undefined,
       heap   |-> made.heap,
       id     |-> made.id]

\* ---------------------------------------------------------------- outcomes
\* what a call did: the heap after it, and its return or throw
Return(h, v, calls) ==
  [heap |-> h, ret |-> "return", val |-> v, res |-> 0, thrown |-> NoExc,
   calls |-> calls]

ReturnRes(h, id, calls) ==
  [heap |-> h, ret |-> "return", val |-> Undefined, res |-> id,
   thrown |-> NoExc, calls |-> calls]

Throw(h, exc, calls) ==
  [heap |-> h, ret |-> "throw", val |-> Undefined, res |-> 0, thrown |-> exc,
   calls |-> calls]

Made(o, calls) == ReturnRes(o.heap, o.id, calls)

\* ------------------------------------------------------ implementExt iface
\* Each method reads the receiver h[r] through its own guards and getters,
\* exactly as the closures over `result` do.

and(h, r, res) ==
  IF h[r].isOk
  THEN ReturnRes(h, res, <<>>)
  ELSE Made(Err(h, h[r].error), <<>>)

\* andThen evaluating fn(result.value) before looking at the variant
andThen_eager(h, r, fn) ==
  LET c == CallRFn(h, fn, h[r].value)
      calls == <<Invocation(fn, h[r].value, c)>>
  IN  IF c.raised THEN Throw(h, c.exc, calls)
      ELSE IF h[r].isOk THEN ReturnRes(c.heap, c.id, calls)
      ELSE Made(Err(c.heap, h[r].error), calls)

andThen(h, r, fn) ==
  IF h[r].isOk
  THEN LET c == CallRFn(h, fn, h[r].value)
           calls == <<Invocation(fn, h[r].value, c)>>
       IN  IF c.raised THEN Throw(h, c.exc, calls)
           ELSE ReturnRes(c.heap, c.id, calls)
  ELSE Made(Err(h, h[r].error), <<>>)

expect(h, r, msg) ==
  IF h[r].isOk
  THEN Return(h, h[r].value, <<>>)
  ELSE Throw(h, TypeErrorWithCause(msg, h[r].error), <<>>)

\* expectErr chaining result.error (absent on a Success) as the cause
expectErr_wrongCause(h, r, msg) ==
  IF h[r].isErr
  THEN Return(h, h[r].error, <<>>)
  ELSE Throw(h, TypeErrorWithCause(msg, h[r].error), <<>>)

expectErr(h, r, msg) ==
  IF h[r].isErr
  THEN Return(h, h[r].error, <<>>)
  ELSE Throw(h, TypeErrorWithCause(msg, h[r].value), <<>>)

\* inspectOk wrapping what fn returned, as mapOk does
inspectOk_asMap(h, r, fn) ==
  IF h[r].isOk
  THEN LET c == CallFn(fn, h[r].value)
           calls == <<Invocation(fn, h[r].value, c)>>
       IN  IF c.raised THEN Throw(h, c.exc, calls)
           ELSE Made(Ok(h, c.val), calls)
  ELSE Made(Err(h, h[r].error), <<>>)

inspectOk(h, r, fn) ==
  IF h[r].isOk
  THEN LET c == CallFn(fn, h[r].value)
           calls == <<Invocation(fn, h[r].value, c)>>
       IN  IF c.raised THEN Throw(h, c.exc, calls)
           ELSE Made(Ok(h, h[r].value), calls)
  ELSE Made(Err(h, h[r].error), <<>>)

inspectErr(h, r, fn) ==
  IF h[r].isErr
  THEN LET c == CallFn(fn, h[r].error)
           calls == <<Invocation(fn, h[r].error, c)>>
       IN  IF c.raised THEN Throw(h, c.exc, calls)
           ELSE Made(Err(h, h[r].error), calls)
  ELSE Made(Ok(h, h[r].value), <<>>)

\* mapErr with its guard inverted: maps the Success channel
mapErr_invertedGuard(h, r, fn) ==
  IF h[r].isErr
  THEN Made(Ok(h, h[r].value), <<>>)
  ELSE LET c == CallFn(fn, h[r].error)
           calls == <<Invocation(fn, h[r].error, c)>>
       IN  IF c.raised THEN Throw(h, c.exc, calls)
           ELSE Made(Err(h, c.val), calls)

mapErr(h, r, fn) ==
  IF h[r].isOk
  THEN Made(Ok(h, h[r].value), <<>>)
  ELSE LET c == CallFn(fn, h[r].error)
           calls == <<Invocation(fn, h[r].error, c)>>
       IN  IF c.raised THEN Throw(h, c.exc, calls)
           ELSE Made(Err(h, c.val), calls)

\* mapOk writing the mapped value into the receiver and returning it
mapOk_inPlace(h, r, fn) ==
  IF h[r].isOk
  THEN LET c == CallFn(fn, h[r].value)
           calls == <<Invocation(fn, h[r].value, c)>>
       IN  IF c.raised THEN Throw(h, c.exc, calls)
           ELSE ReturnRes([h EXCEPT ![r].value = c.val], r, calls)
  ELSE Made(Err(h, h[r].error), <<>>)

mapOk(h, r, fn) ==
  IF h[r].isOk
  THEN LET c == CallFn(fn, h[r].value)
           calls == <<Invocation(fn, h[r].value, c)>>
       IN  IF c.raised THEN Throw(h, c.exc, calls)
           ELSE Made(Ok(h, c.val), calls)
  ELSE Made(Err(h, h[r].error), <<>>)

mapOr(h, r, dflt, fn) ==
  IF h[r].isOk
  THEN LET c == CallFn(fn, h[r].value)
           calls == <<Invocation(fn, h[r].value, c)>>
       IN  IF c.raised THEN Throw(h, c.exc, calls)
           ELSE Return(h, c.val, calls)
  ELSE Return(h, dflt, <<>>)

\* mapOrElse with its two callbacks taken in the other order
mapOrElse_swapped(h, r, orFn, fn) ==
  IF h[r].isOk
  THEN LET c == CallFn(orFn, h[r].value)
           calls == <<Invocation(orFn, h[r].value, c)>>
       IN  IF c.raised THEN Throw(h, c.exc, calls)
           ELSE Return(h, c.val, calls)
  ELSE LET c == CallFn(fn, h[r].error)
           calls == <<Invocation(fn, h[r].error, c)>>
       IN  IF c.raised THEN Throw(h, c.exc, calls)
           ELSE Return(h, c.val, calls)

mapOrElse(h, r, orFn, fn) ==
  IF h[r].isOk
  THEN LET c == CallFn(fn, h[r].value)
           calls == <<Invocation(fn, h[r].value, c)>>
       IN  IF c.raised THEN Throw(h, c.exc, calls)
           ELSE Return(h, c.val, calls)
  ELSE LET c == CallFn(orFn, h[r].error)
           calls == <<Invocation(orFn, h[r].error, c)>>
       IN  IF c.raised THEN Throw(h, c.exc, calls)
           ELSE Return(h, c.val, calls)

\* or keeping and's guard
or_wrongGuard(h, r, res) ==
  IF h[r].isOk
  THEN ReturnRes(h, res, <<>>)
  ELSE Made(Ok(h, h[r].value), <<>>)

or(h, r, res) ==
  IF h[r].isErr
  THEN ReturnRes(h, res, <<>>)
  ELSE Made(Ok(h, h[r].value), <<>>)

orElse(h, r, fn) ==
  IF h[r].isErr
  THEN LET c == CallRFn(h, fn, h[r].error)
           calls == <<Invocation(fn, h[r].error, c)>>
       IN  IF c.raised THEN Throw(h, c.exc, calls)
           ELSE ReturnRes(c.heap, c.id, calls)
  ELSE Made(Ok(h, h[r].value), <<>>)

unwrap(h, r) ==
  IF h[r].isOk
  THEN Return(h, h[r].value, <<>>)
  ELSE Throw(h, TypeErrorWithCause("Result is error", h[r].error), <<>>)

\* unwrapErr keeping unwrap's guard
unwrapErr_wrongGuard(h, r) ==
  IF h[r].isOk
  THEN Return(h, h[r].error, <<>>)
  ELSE Throw(h, TypeErrorWithCause("Result is ok", h[r].value), <<>>)

unwrapErr(h, r) ==
  IF h[r].isErr
  THEN Return(h, h[r].error, <<>>)
  ELSE Throw(h, TypeErrorWithCause("Result is ok", h[r].value), <<>>)

unwrapOr(h, r, dflt) ==
  IF h[r].isOk
  THEN Return(h, h[r].value, <<>>)
  ELSE Return(h, dflt, <<>>)

\* unwrapOrElse computing the fallback before looking at the variant
unwrapOrElse_eager(h, r, fn) ==
  LET c == CallFn(fn, h[r].error)
      calls == <<Invocation(fn, h[r].error, c)>>
  IN  IF c.raised THEN Throw(h, c.exc, calls)
      ELSE IF h[r].isOk THEN Return(h, h[r].value, calls)
      ELSE Return(h, c.val, calls)

unwrapOrElse(h, r, fn) ==
  IF h[r].isOk
  THEN Return(h, h[r].value, <<>>)
  ELSE LET c == CallFn(fn, h[r].error)
           calls == <<Invocation(fn, h[r].error, c)>>
       IN  IF c.raised THEN Throw(h, c.exc, calls)
           ELSE Return(h, c.val, calls)

\* the guards: the two closures stored on the object
isOk(h, r) == Return(h, Bool(h[r].isOk), <<>>)

isErr(h, r) == Return(h, Bool(h[r].isErr), <<>>)

\* ------------------------------------------------------------------- state
NoCall ==
  [op |-> "init", recv |-> 0, fn |-> "-", fn2 |-> "-", arg |-> Undefined,
   other |-> 0, msg |-> "", ret |-> "return", val |-> Undefined, res |-> 0,
   thrown |-> NoExc, calls |-> <<>>]

Init ==
  /\ heap = <<>>
  /\ last = NoCall
  /\ wrappers = <<>>
  /\ proms = <<>>
  /\ mq = <<>>
  /\ log = <<>>

Objs == DOMAIN heap

\* a call `op` on receiver r with the given arguments had outcome `out`
Record(op, r, fn, fn2, arg, other, msg, out) ==
  /\ Len(out.heap) <= MaxHeap
  /\ heap' = out.heap
  /\ last' = [op |-> op, recv |-> r, fn |-> fn, fn2 |-> fn2, arg |-> arg,
              other |-> other, msg |-> msg, ret |-> out.ret, val |-> out.val,
              res |-> out.res, thrown |-> out.thrown, calls |-> out.calls]
  /\ UNCHANGED <<wrappers, proms, mq, log>>

\* ----------------------------------------------------------------- actions
DoOk == \E v \in Values :
  Record("Ok", 0, "-", "-", v, 0, "", Made(Ok(heap, v), <<>>))

DoErr == \E e \in Errors :
  Record("Err", 0, "-", "-", e, 0, "", Made(Err(heap, e), <<>>))

DoIsOk == \E r \in Objs :
  Record("isOk", r, "-", "-", Undefined, 0, "", isOk(heap, r))

DoIsErr == \E r \in Objs :
  Record("isErr", r, "-", "-", Undefined, 0, "", isErr(heap, r))

DoAnd == \E r \in Objs, res \in Objs :
  Record("and", r, "-", "-", Undefined, res, "", and(heap, r, res))

DoAndThen == \E r \in Objs, fn \in RFns :
  Record("andThen", r, fn, "-", Undefined, 0, "", andThen(heap, r, fn))

DoExpect == \E r \in Objs, msg \in Msgs :
  Record("expect", r, "-", "-", Undefined, 0, msg, expect(heap, r, msg))

DoExpectErr == \E r \in Objs, msg \in Msgs :
  Record("expectErr", r, "-", "-", Undefined, 0, msg, expectErr(heap, r, msg))

DoInspectOk == \E r \in Objs, fn \in Fns :
  Record("inspectOk", r, fn, "-", Undefined, 0, "", inspectOk(heap, r, fn))

DoInspectErr == \E r \in Objs, fn \in Fns :
  Record("inspectErr", r, fn, "-", Undefined, 0, "", inspectErr(heap, r, fn))

DoMapErr == \E r \in Objs, fn \in Fns :
  Record("mapErr", r, fn, "-", Undefined, 0, "", mapErr(heap, r, fn))

DoMapOk == \E r \in Objs, fn \in Fns :
  Record("mapOk", r, fn, "-", Undefined, 0, "", mapOk(heap, r, fn))

DoMapOr == \E r \in Objs, dflt \in Values, fn \in Fns :
  Record("mapOr", r, fn, "-", dflt, 0, "", mapOr(heap, r, dflt, fn))

DoMapOrElse == \E r \in Objs, orFn \in Fns, fn \in Fns :
  Record("mapOrElse", r, fn, orFn, Undefined, 0, "", mapOrElse(heap, r, orFn, fn))

DoOr == \E r \in Objs, res \in Objs :
  Record("or", r, "-", "-", Undefined, res, "", or(heap, r, res))

DoOrElse == \E r \in Objs, fn \in RFns :
  Record("orElse", r, fn, "-", Undefined, 0, "", orElse(heap, r, fn))

DoUnwrap == \E r \in Objs :
  Record("unwrap", r, "-", "-", Undefined, 0, "", unwrap(heap, r))

DoUnwrapErr == \E r \in Objs :
  Record("unwrapErr", r, "-", "-", Undefined, 0, "", unwrapErr(heap, r))

DoUnwrapOr == \E r \in Objs, dflt \in Values :
  Record("unwrapOr", r, "-", "-", dflt, 0, "", unwrapOr(heap, r, dflt))

DoUnwrapOrElse == \E r \in Objs, fn \in Fns :
  Record("unwrapOrElse", r, fn, "-", Undefined, 0, "", unwrapOrElse(heap, r, fn))

Next ==
  \/ DoOk
  \/ DoErr
  \/ DoIsOk
  \/ DoIsErr
  \/ DoAnd
  \/ DoAndThen
  \/ DoExpect
  \/ DoExpectErr
  \/ DoInspectOk
  \/ DoInspectErr
  \/ DoMapErr
  \/ DoMapOk
  \/ DoMapOr
  \/ DoMapOrElse
  \/ DoOr
  \/ DoOrElse
  \/ DoUnwrap
  \/ DoUnwrapErr
  \/ DoUnwrapOr
  \/ DoUnwrapOrElse

Spec == Init /\ [][Next]_vars

TypeOK ==
  /\ Len(heap) <= MaxHeap
  /\ \A i \in Objs : heap[i].isOk \in BOOLEAN /\ heap[i].isErr \in BOOLEAN
  /\ last.ret \in {"return", "throw"}
  /\ last.res \in 0..Len(heap)

\* ---------------------------------------------------------------- helpers
\* the receiver of the last call
Recv == heap[last.recv]

\* object i was built by Ok(v) / by Err(e)
BuiltOk(i) == heap[i].ctor = "Ok"

BuiltErr(i) == heap[i].ctor = "Err"

\* what a consumer observes of object i through its guards and getters
IsSuccess(i, v) == heap[i].isOk /\ ~heap[i].isErr /\ heap[i].value = v

IsFailure(i, e) == heap[i].isErr /\ ~heap[i].isOk /\ heap[i].error = e

OnObject == last.recv \in Objs

Returned == last.ret = "return"

Threw == last.ret = "throw"

\* the last call raised because a user callback raised, not by itself
CallbackRaised == \E k \in DOMAIN last.calls : last.calls[k].raised

\* ------------------------------------------------------------------ claims

\* C1: every Result built by Ok, Err or any combinator answers isOk() and
\* isErr() with opposite booleans: an object built by Ok answers
\* isOk()=true / isErr()=false, one built by Err answers isOk()=false /
\* isErr()=true, and a guard call returns the negation of the other guard.
C1_GuardsDisagree ==
  /\ \A i \in Objs :
       /\ heap[i].isOk # heap[i].isErr
       /\ BuiltOk(i) => (heap[i].isOk /\ ~heap[i].isErr)
       /\ BuiltErr(i) => (heap[i].isErr /\ ~heap[i].isOk)
       /\ isOk(heap, i).val # isErr(heap, i).val
  /\ (last.op = "isOk" /\ OnObject) =>
       (Returned /\ last.val = Bool(BuiltOk(last.recv))
                 /\ last.val = Bool(~Recv.isErr))
  /\ (last.op = "isErr" /\ OnObject) =>
       (Returned /\ last.val = Bool(BuiltErr(last.recv))
                 /\ last.val = Bool(~Recv.isOk))

\* a guard was asked on a Result that a combinator produced from an Err
C1_Witness ==
  /\ last.op = "isErr"
  /\ last.recv = 2
  /\ BuiltErr(2)
  /\ last.val = Bool(TRUE)

\* C2: Ok(v).unwrap() returns v and Err(e).unwrapErr() returns e; Err(e).unwrap()
\* and Ok(v).unwrapErr() raise; on every Result exactly one of unwrap() and
\* unwrapErr() raises and the other returns the held payload.
C2_UnwrapDisjoint ==
  /\ (last.op = "unwrap" /\ OnObject) =>
       IF BuiltOk(last.recv)
       THEN Returned /\ last.val = Recv.arg
       ELSE Threw
  /\ (last.op = "unwrapErr" /\ OnObject) =>
       IF BuiltErr(last.recv)
       THEN Returned /\ last.val = Recv.arg
       ELSE Threw
  /\ \A i \in Objs :
       LET u == unwrap(heap, i)
           ue == unwrapErr(heap, i)
       IN  /\ (u.ret = "throw") # (ue.ret = "throw")
           /\ u.ret = "return" => u.val = heap[i].arg
           /\ ue.ret = "return" => ue.val = heap[i].arg

\* unwrapErr raised on a Success
C2_Witness ==
  /\ last.op = "unwrapErr"
  /\ OnObject
  /\ BuiltOk(last.recv)
  /\ Threw

\* C3: unwrap / expect on Err(e) and unwrapErr / expectErr on Ok(v) raise an
\* exception whose cause is the original payload; for expect(msg) and
\* expectErr(msg) the message is exactly msg; on the matching variant expect
\* and expectErr return the payload without raising.
C3_CauseAndMessage ==
  /\ (last.op \in {"unwrap", "expect"} /\ OnObject /\ BuiltErr(last.recv)) =>
       (Threw /\ last.thrown.name = "TypeError"
              /\ last.thrown.cause = Recv.arg)
  /\ (last.op \in {"unwrapErr", "expectErr"} /\ OnObject /\ BuiltOk(last.recv)) =>
       (Threw /\ last.thrown.name = "TypeError"
              /\ last.thrown.cause = Recv.arg)
  /\ (last.op \in {"expect", "expectErr"} /\ Threw) =>
       last.thrown.message = last.msg
  /\ (last.op = "expect" /\ OnObject /\ BuiltOk(last.recv)) =>
       (Returned /\ last.val = Recv.arg)
  /\ (last.op = "expectErr" /\ OnObject /\ BuiltErr(last.recv)) =>
       (Returned /\ last.val = Recv.arg)

\* expectErr("m2") raised on Ok(1): cause 1, message "m2"
C3_Witness ==
  /\ last.op = "expectErr"
  /\ last.msg = "m2"
  /\ OnObject
  /\ BuiltOk(last.recv)
  /\ Recv.arg = Plain(1)
  /\ Threw

\* exactly one callback invocation, of fn, on x
CalledOnceWith(fn, x) ==
  /\ Len(last.calls) = 1
  /\ last.calls[1].fn = fn
  /\ last.calls[1].arg = x

NeverCalled == last.calls = <<>>

\* C4: mapOk and mapErr transform only their own channel.  Ok(v).mapOk(f) is
\* Ok(f(v)) and Err(e).mapOk(f) is Err(e) with f never invoked;
\* Err(e).mapErr(g) is Err(g(e)) and Ok(v).mapErr(g) is Ok(v) with g never
\* invoked; the callback is invoked exactly once on the matching variant.
C4_MapOwnChannel ==
  /\ (last.op = "mapOk" /\ OnObject /\ BuiltOk(last.recv)) =>
       /\ CalledOnceWith(last.fn, Recv.arg)
       /\ ~CallbackRaised =>
            (Returned /\ last.res \in Objs
                      /\ IsSuccess(last.res, CallFn(last.fn, Recv.arg).val))
  /\ (last.op = "mapOk" /\ OnObject /\ BuiltErr(last.recv)) =>
       (NeverCalled /\ Returned /\ last.res \in Objs
                    /\ IsFailure(last.res, Recv.arg))
  /\ (last.op = "mapErr" /\ OnObject /\ BuiltErr(last.recv)) =>
       /\ CalledOnceWith(last.fn, Recv.arg)
       /\ ~CallbackRaised =>
            (Returned /\ last.res \in Objs
                      /\ IsFailure(last.res, CallFn(last.fn, Recv.arg).val))
  /\ (last.op = "mapErr" /\ OnObject /\ BuiltOk(last.recv)) =>
       (NeverCalled /\ Returned /\ last.res \in Objs
                    /\ IsSuccess(last.res, Recv.arg))

\* Ok(1).mapErr(succ) gave Ok(1) and succ was not invoked
C4_Witness ==
  /\ last.op = "mapErr"
  /\ last.fn = "succ"
  /\ OnObject
  /\ BuiltOk(last.recv)
  /\ Recv.arg = Plain(1)
  /\ last.res \in Objs
  /\ last.res # last.recv
  /\ IsSuccess(last.res, Plain(1))

\* C5: and / andThen short-circuit on failure.  Err(e).andThen(f) never
\* invokes f and yields a Failure holding e; Err(e).and(other) yields a
\* Failure holding e; Ok(v).andThen(f) invokes f exactly once with v and
\* returns exactly the Result f returned; Ok(v).and(other) returns other.
\* So in parse(text).andThen(validate): after a successful parse a validate
\* that returns Err tagged ValidationError makes the final Failure carry
\* ValidationError, and after a failed parse validate is not invoked and the
\* Failure carries the parse error.
C5_AndShortCircuit ==
  /\ (last.op = "andThen" /\ OnObject /\ BuiltErr(last.recv)) =>
       (NeverCalled /\ Returned /\ last.res \in Objs
                    /\ IsFailure(last.res, Recv.arg))
  /\ (last.op = "and" /\ OnObject /\ BuiltErr(last.recv)) =>
       (NeverCalled /\ Returned /\ last.res \in Objs
                    /\ IsFailure(last.res, Recv.arg))
  /\ (last.op = "andThen" /\ OnObject /\ BuiltOk(last.recv)) =>
       /\ CalledOnceWith(last.fn, Recv.arg)
       /\ ~CallbackRaised =>
            (Returned /\ last.res \in Objs /\ last.res = last.calls[1].res)
  /\ (last.op = "and" /\ OnObject /\ BuiltOk(last.recv)) =>
       (NeverCalled /\ Returned /\ last.res = last.other)
  /\ (last.op = "andThen" /\ last.fn = "validate" /\ OnObject) =>
       /\ (BuiltOk(last.recv) /\ Recv.arg.n % 2 = 1) =>
            (/\ last.res \in Objs
             /\ heap[last.res].isErr
             /\ heap[last.res].error.type = "ValidationError")
       /\ (BuiltErr(last.recv) /\ Recv.arg.type = "SyntaxError") =>
            (/\ NeverCalled
             /\ last.res \in Objs
             /\ heap[last.res].isErr
             /\ heap[last.res].error.type = "SyntaxError")

\* a failed parse chained into validate: validate did not run
C5_Witness ==
  /\ last.op = "andThen"
  /\ last.fn = "validate"
  /\ OnObject
  /\ BuiltErr(last.recv)
  /\ Recv.arg = Tagged("SyntaxError", 0)
  /\ last.calls = <<>>
  /\ last.res \in Objs
  /\ last.res # last.recv

\* C6: or / orElse recover only from failure.  Err(e).or(other) returns other;
\* Err(e).orElse(fn) invokes fn exactly once with e and returns what fn
\* returned; Ok(v).or(other) and Ok(v).orElse(fn) yield a Success holding v
\* and fn is never invoked on a Success.
C6_OrRecovers ==
  /\ (last.op = "or" /\ OnObject /\ BuiltErr(last.recv)) =>
       (NeverCalled /\ Returned /\ last.res = last.other)
  /\ (last.op = "orElse" /\ OnObject /\ BuiltErr(last.recv)) =>
       /\ CalledOnceWith(last.fn, Recv.arg)
       /\ ~CallbackRaised =>
            (Returned /\ last.res \in Objs /\ last.res = last.calls[1].res)
  /\ (last.op \in {"or", "orElse"} /\ OnObject /\ BuiltOk(last.recv)) =>
       (NeverCalled /\ Returned /\ last.res \in Objs
                    /\ IsSuccess(last.res, Recv.arg))

\* Err(e).orElse(okSucc) returned the Success that okSucc built
C6_Witness ==
  /\ last.op = "orElse"
  /\ last.fn = "okSucc"
  /\ OnObject
  /\ BuiltErr(last.recv)
  /\ Len(last.calls) = 1
  /\ last.res \in Objs
  /\ heap[last.res].isOk

\* C7: mapOr(default, fn) returns fn(v) on Ok(v) and default on Err(e) without
\* invoking fn; mapOrElse(onErr, onOk) returns onOk(v) on Ok(v) and onErr(e)
\* on Err(e), invoking exactly one of the two callbacks exactly once.
C7_MapOrFold ==
  /\ (last.op = "mapOr" /\ OnObject /\ BuiltOk(last.recv)) =>
       /\ CalledOnceWith(last.fn, Recv.arg)
       /\ ~CallbackRaised =>
            (Returned /\ last.val = CallFn(last.fn, Recv.arg).val)
  /\ (last.op = "mapOr" /\ OnObject /\ BuiltErr(last.recv)) =>
       (NeverCalled /\ Returned /\ last.val = last.arg)
  /\ (last.op = "mapOrElse" /\ OnObject /\ BuiltOk(last.recv)) =>
       /\ CalledOnceWith(last.fn, Recv.arg)
       /\ ~CallbackRaised =>
            (Returned /\ last.val = CallFn(last.fn, Recv.arg).val)
  /\ (last.op = "mapOrElse" /\ OnObject /\ BuiltErr(last.recv)) =>
       /\ CalledOnceWith(last.fn2, Recv.arg)
       /\ ~CallbackRaised =>
            (Returned /\ last.val = CallFn(last.fn2, Recv.arg).val)

\* Err(1).mapOrElse(succ, const0) returned succ(1), not const0's value
C7_Witness ==
  /\ last.op = "mapOrElse"
  /\ last.fn = "const0"
  /\ last.fn2 = "succ"
  /\ OnObject
  /\ BuiltErr(last.recv)
  /\ Recv.arg = Plain(1)
  /\ Returned
  /\ last.val = Succ(Plain(1))

\* C8: unwrapOr(default) and unwrapOrElse(fn) never raise on either variant
\* when fn does not raise: on Ok(v) both return v and fn is not invoked; on
\* Err(e) unwrapOr returns default and unwrapOrElse returns fn(e).
C8_UnwrapOrTotal ==
  /\ (last.op = "unwrapOr" /\ OnObject) =>
       /\ Returned
       /\ NeverCalled
       /\ BuiltOk(last.recv) => last.val = Recv.arg
       /\ BuiltErr(last.recv) => last.val = last.arg
  /\ (last.op = "unwrapOrElse" /\ OnObject /\ last.fn # "boom") => Returned
  /\ (last.op = "unwrapOrElse" /\ OnObject /\ BuiltOk(last.recv)) =>
       (Returned /\ NeverCalled /\ last.val = Recv.arg)
  /\ (last.op = "unwrapOrElse" /\ OnObject /\ BuiltErr(last.recv)) =>
       /\ CalledOnceWith(last.fn, Recv.arg)
       /\ ~CallbackRaised =>
            (Returned /\ last.val = CallFn(last.fn, Recv.arg).val)

\* Err(0).unwrapOr(1) returned the default 1
C8_Witness ==
  /\ last.op = "unwrapOr"
  /\ OnObject
  /\ BuiltErr(last.recv)
  /\ Recv.arg = Plain(0)
  /\ last.arg = Plain(1)
  /\ Returned
  /\ last.val = Plain(1)

\* C9: inspectOk(fn) on Ok(v) invokes fn exactly once with v and returns an
\* Ok holding v; on Err(e) it does not invoke fn and returns an Err holding
\* e.  inspectErr is symmetric.  The returned Result has the variant and
\* payload of the receiver whatever fn returned.
C9_InspectKeeps ==
  /\ (last.op = "inspectOk" /\ OnObject /\ BuiltOk(last.recv)) =>
       /\ CalledOnceWith(last.fn, Recv.arg)
       /\ ~CallbackRaised =>
            (Returned /\ last.res \in Objs /\ IsSuccess(last.res, Recv.arg))
  /\ (last.op = "inspectOk" /\ OnObject /\ BuiltErr(last.recv)) =>
       (NeverCalled /\ Returned /\ last.res \in Objs
                    /\ IsFailure(last.res, Recv.arg))
  /\ (last.op = "inspectErr" /\ OnObject /\ BuiltErr(last.recv)) =>
       /\ CalledOnceWith(last.fn, Recv.arg)
       /\ ~CallbackRaised =>
            (Returned /\ last.res \in Objs /\ IsFailure(last.res, Recv.arg))
  /\ (last.op = "inspectErr" /\ OnObject /\ BuiltOk(last.recv)) =>
       (NeverCalled /\ Returned /\ last.res \in Objs
                    /\ IsSuccess(last.res, Recv.arg))

\* Ok(1).inspectOk(succ): succ ran on 1 and gave 0, the result still holds 1
C9_Witness ==
  /\ last.op = "inspectOk"
  /\ last.fn = "succ"
  /\ OnObject
  /\ BuiltOk(last.recv)
  /\ Recv.arg = Plain(1)
  /\ Len(last.calls) = 1
  /\ last.calls[1].ret = Plain(0)
  /\ last.res \in Objs
  /\ heap[last.res].value = Plain(1)

\* combinators that, when they allocate, rewrap the receiver's own payload
Rewrappers == {"and", "or", "inspectOk", "inspectErr"}

\* one step leaves every existing Result as it was, and a rewrapped Result
\* has the receiver's variant and payload
Frame ==
  /\ \A i \in DOMAIN heap : i \in DOMAIN heap' /\ heap'[i] = heap[i]
  /\ (last'.op \in Rewrappers /\ last'.res \in DOMAIN heap' \ DOMAIN heap) =>
       /\ heap'[last'.res].isOk = heap[last'.recv].isOk
       /\ heap'[last'.res].isErr = heap[last'.recv].isErr
       /\ heap'[last'.res].value = heap[last'.recv].value
       /\ heap'[last'.res].error = heap[last'.recv].error

\* C10: a Result is immutable: no constructor, guard, combinator or unwrap
\* call, raising or not, changes the variant or the held value or error of
\* any Result that already exists, and combinators that propagate a payload
\* pass it through unchanged.
C10_Immutable == [][Frame]_vars

\* a raising unwrap on a Failure that was itself produced by a combinator;
\* the receiver is still the Failure it was built as
C10_Witness ==
  /\ last.op = "unwrap"
  /\ Threw
  /\ last.recv = 2
  /\ IsFailure(2, heap[2].arg)
  /\ heap[1] # heap[2]

\* =========================================================================
\* fromFn / call: wrapping a function that may throw
\* =========================================================================
MaxWrap == 2    \* number of functions fromFn hands out in a run

\* the functions () => T handed to fromFn / call: two return a value, two
\* throw (an exception object, and a value that is not an exception)
Thunks == {"ret0", "retMax", "throwSyntax", "throwPlain"}

CallThunk(fn) ==
  [raised |-> (fn \in {"throwSyntax", "throwPlain"}),
   id     |-> 0,
   val    |-> CASE fn = "ret0"   -> Plain(0)
                [] fn = "retMax" -> Plain(MaxVal)
                [] OTHER         -> Undefined,
   thrown |-> CASE fn = "throwSyntax" -> Tagged("SyntaxError", 0)
                [] fn = "throwPlain"  -> Plain(1)
                [] OTHER              -> Undefined]

\* fromFn(fn): the arrow function it returns, closed over fn; nothing runs
fromFn(fn) == [wraps |-> fn]

\* the returned function without its try / catch
fromFn_returned_noCatch(h, w) ==
  LET c == CallThunk(w.wraps)
      calls == <<Invocation(w.wraps, Undefined, c)>>
  IN  IF c.raised
      THEN Throw(h, [name |-> "thrown", message |-> "", cause |-> c.thrown], calls)
      ELSE Made(Ok(h, c.val), calls)

\* calling the function fromFn returned: try { Ok(fn()) } catch { Err(error) }
fromFn_returned(h, w) ==
  LET c == CallThunk(w.wraps)
      calls == <<Invocation(w.wraps, Undefined, c)>>
  IN  IF c.raised
      THEN Made(Err(h, c.thrown), calls)
      ELSE Made(Ok(h, c.val), calls)

\* call handing back the wrapper's Result only when fn returned normally
call_rethrow(h, fn) ==
  LET c == CallThunk(fn)
      calls == <<Invocation(fn, Undefined, c)>>
  IN  IF c.raised
      THEN Throw(h, [name |-> "thrown", message |-> "", cause |-> c.thrown], calls)
      ELSE Made(Ok(h, c.val), calls)

call(h, fn) == fromFn_returned(h, fromFn(fn))

Wrappers == DOMAIN wrappers

DoCall == \E fn \in Thunks :
  /\ Record("call", 0, fn, "-", Undefined, 0, "", call(heap, fn))

\* fromFn(fn): the caller keeps the returned function (last.other names it)
DoFromFn == \E fn \in Thunks :
  /\ Len(wrappers) < MaxWrap
  /\ wrappers' = Append(wrappers, fromFn(fn))
  /\ heap' = heap
  /\ last' = [NoCall EXCEPT !.op = "fromFn", !.fn = fn,
                            !.other = Len(wrappers) + 1]
  /\ UNCHANGED <<proms, mq, log>>

\* a later call of a function fromFn returned
DoInvokeWrapped == \E w \in Wrappers :
  Record("wrapped", 0, wrappers[w].wraps, "-", Undefined, w, "",
         fromFn_returned(heap, wrappers[w]))

NextFn ==
  \/ DoCall
  \/ DoFromFn
  \/ DoInvokeWrapped
  \/ DoIsOk
  \/ DoIsErr
  \/ DoUnwrap
  \/ DoUnwrapErr

SpecFn == Init /\ [][NextFn]_vars

\* C13: call(fn) never raises; it invokes fn exactly once, during the call;
\* if fn returns x the result is Ok(x), and if fn raises e the result is
\* Err(e) holding that same e, unclassified.
C13_CallCatches ==
  (last.op = "call") =>
    /\ Returned
    /\ Len(last.calls) = 1
    /\ last.calls[1].fn = last.fn
    /\ last.res \in Objs
    /\ LET c == CallThunk(last.fn)
       IN  IF c.raised
           THEN IsFailure(last.res, c.thrown)
           ELSE IsSuccess(last.res, c.val)

\* call(() => { throw 1 }) gave Err(1): the thrown value itself, no tag
C13_Witness ==
  /\ last.op = "call"
  /\ last.fn = "throwPlain"
  /\ Returned
  /\ last.res \in Objs
  /\ heap[last.res].isErr
  /\ heap[last.res].error = Plain(1)

\* C14 as stated: fromFn(fn) executes fn at the time fromFn is called.
C14_FromFnImmediate ==
  (last.op = "fromFn") => (Len(last.calls) = 1 /\ last.calls[1].fn = last.fn)

\* C14 amended: fromFn(fn) does not execute fn; it returns a function, and
\* each call of that function executes fn exactly once, at that time, and
\* turns whatever fn raises into a Failure holding it (a normal return into
\* a Success), never raising itself.
C14_FromFnDeferred ==
  /\ (last.op = "fromFn") =>
       /\ Returned
       /\ last.calls = <<>>
       /\ last.res = 0
       /\ last.other \in Wrappers
       /\ wrappers[last.other].wraps = last.fn
  /\ (last.op = "wrapped") =>
       /\ Returned
       /\ Len(last.calls) = 1
       /\ last.calls[1].fn = wrappers[last.other].wraps
       /\ last.res \in Objs
       /\ LET c == CallThunk(wrappers[last.other].wraps)
          IN  IF c.raised
              THEN IsFailure(last.res, c.thrown)
              ELSE IsSuccess(last.res, c.val)

\* a function obtained from fromFn was called later and caught fn's throw
C14_Witness ==
  /\ last.op = "wrapped"
  /\ wrappers[last.other].wraps = "throwSyntax"
  /\ Len(last.calls) = 1
  /\ last.res \in Objs
  /\ heap[last.res].isErr
  /\ heap[last.res].error = Tagged("SyntaxError", 0)

\* =========================================================================
\* the classifier applied to caught values
\* =========================================================================
\* errorHandlers.catch(x) called directly
DoCatch == \E x \in Thrown :
  Record("catch", 0, "-", "-", x, 0, "", Return(heap, catch(x), <<>>))

\* a Failure holding a caught value (one per run)
DoErrThrown == \E e \in Thrown :
  /\ heap = <<>>
  /\ Record("Err", 0, "-", "-", e, 0, "", Made(Err(heap, e), <<>>))

\* result.mapErr(errorHandlers.catch)
DoMapErrCatch == \E r \in Objs :
  Record("mapErr", r, "catch", "-", Undefined, 0, "", mapErr(heap, r, "catch"))

NextClassify ==
  \/ DoCatch
  \/ DoErrThrown
  \/ DoMapErrCatch

SpecClassify == Init /\ [][NextClassify]_vars

KnownTags == SpecificKinds \cup {"Error"}

\* C20: classify (errorHandlers.catch) is total: for every input it returns
\* a record {type, error} without raising, whose error is the very value
\* passed in; an instance of TypeError gets 'TypeError' (likewise for each
\* known kind and a value constructed from it), and a value that is an
\* instance of no known exception kind gets 'unknown'.  The same holds when
\* it runs as the callback of mapErr.
C20_ClassifyTotal ==
  /\ (last.op = "catch") =>
       /\ Returned
       /\ DOMAIN last.val = {"type", "error"}
       /\ last.val.error = last.arg
       /\ last.val.type \in KnownTags \cup {"unknown"}
       /\ InstanceOf(last.arg, "TypeError") => last.val.type = "TypeError"
       /\ \A K \in KnownTags : last.arg.type = K => last.val.type = K
       /\ (\A K \in KnownTags : ~InstanceOf(last.arg, K)) =>
            last.val.type = "unknown"
  /\ (last.op = "mapErr" /\ last.fn = "catch" /\ OnObject /\ BuiltErr(last.recv)) =>
       /\ Returned
       /\ last.res \in Objs
       /\ heap[last.res].isErr
       /\ heap[last.res].error.error = Recv.arg
       /\ (\A K \in KnownTags : ~InstanceOf(Recv.arg, K)) =>
            heap[last.res].error.type = "unknown"

\* classify(1), a number, came back tagged 'unknown' holding that 1
C20_Witness ==
  /\ last.op = "catch"
  /\ last.arg = [type |-> "plain", n |-> 1]
  /\ last.val = [error |-> [type |-> "plain", n |-> 1], type |-> "unknown"]

\* =========================================================================
\* AsyncResult: implementAsyncExt over the host's promises
\* =========================================================================
MaxProm == 3

\* Result objects alive in one asynchronous run
MaxObjs == 3

\* continuations chained by combinators in one run
MaxChain == 2

\* ------------------------------------------------------- promise machinery
\* What a promise settles with, or a callback hands back: a Result (by
\* identity), a plain value, or a promise (only as a callback's return, a
\* promise never settles with a promise).
NoVal == [k |-> "none", id |-> 0, pay |-> Undefined]

RV(id) == [k |-> "result", id |-> id, pay |-> Undefined]

PV(x) == [k |-> "plain", id |-> 0, pay |-> x]

PromV(id) == [k |-> "promise", id |-> id, pay |-> Undefined]

\* the value a raising callback threw, as the rejection reason
Reason(exc) ==
  IF "message" \in DOMAIN exc THEN PV([type |-> exc.name, n |-> 0]) ELSE PV(exc)

\* the bundle the asynchronous operators work on
St(h, ps, q, l) == [heap |-> h, proms |-> ps, mq |-> q, log |-> l]

Now == St(heap, proms, mq, log)

\* a continuation attached to a promise: which code registered it (kind),
\* with which callbacks, the promise `then` returned for it (target) and,
\* for fromPromise, the promise its `resolve` belongs to (outer)
Rx(kind, fn, fn2, target, outer) ==
  [kind |-> kind, fn |-> fn, fn2 |-> fn2, target |-> target, outer |-> outer]

\* a microtask: run continuation rx of a promise that settled `how` with v,
\* or (adopt) subscribe promise `target` to the promise x it was resolved with
ReactJob(rx, how, v) ==
  [job |-> "react", rx |-> rx, how |-> how, val |-> v, x |-> 0]

AdoptJob(x, target) ==
  [job |-> "adopt", rx |-> Rx("forward", "-", "-", target, 0),
   how |-> "fulfilled", val |-> NoVal, x |-> x]

\* a new pending promise; op / src / fn / fn2 are history fields (the call
\* that created it), ar tells whether the AsyncResult interface is attached
NewPromise(st, op, src, fn, fn2) ==
  [st |-> [st EXCEPT !.proms = Append(st.proms,
              [state |-> "pending", val |-> NoVal, reactions |-> <<>>,
               ar |-> FALSE, op |-> op, src |-> src, fn |-> fn, fn2 |-> fn2])],
   id |-> Len(st.proms) + 1]

\* fulfil or reject p: a settled promise ignores it; the continuations
\* registered so far are queued in registration order
Settle(st, p, how, v) ==
  IF st.proms[p].state # "pending" THEN st
  ELSE [st EXCEPT
          !.proms[p].state = how,
          !.proms[p].val = v,
          !.proms[p].reactions = <<>>,
          !.mq = st.mq \o [i \in DOMAIN st.proms[p].reactions |->
                             ReactJob(st.proms[p].reactions[i], how, v)]]

\* the resolve function of p called with v: a promise is adopted in a later
\* microtask, anything else fulfils p
Resolve(st, p, v) ==
  IF v.k = "promise"
  THEN IF st.proms[p].state # "pending" THEN st
       ELSE [st EXCEPT !.mq = Append(st.mq, AdoptJob(v.id, p))]
  ELSE Settle(st, p, "fulfilled", v)

\* attach continuation rx to p: queued at once if p has settled
Subscribe(st, p, rx) ==
  IF st.proms[p].state = "pending"
  THEN [st EXCEPT !.proms[p].reactions = Append(st.proms[p].reactions, rx)]
  ELSE [st EXCEPT !.mq = Append(st.mq,
                      ReactJob(rx, st.proms[p].state, st.proms[p].val))]

\* p.then(callback): a new promise for the callback's outcome
Then(st, p, kind, fn, fn2, outer) ==
  LET n == NewPromise(st, kind, p, fn, fn2)
  IN  [st |-> Subscribe(n.st, p, Rx(kind, fn, fn2, n.id, outer)), id |-> n.id]

\* ------------------------------------------------------- implementAsyncExt
\* Object.assign(Promise.resolve(result), iface): result is a native
\* promise, so Promise.resolve hands back the same promise and the
\* interface is attached to it.
implementAsyncExt(st, p) ==
  [st |-> [st EXCEPT !.proms[p].ar = TRUE], id |-> p]

\* each method chains one continuation onto the wrapped promise and wraps
\* the promise `then` returned
asyncAndThen(st, a, fn) ==
  LET t == Then(st, a, "andThen", fn, "-", 0) IN implementAsyncExt(t.st, t.id)

\* inspectOk that runs the continuation at once when the promise has
\* already settled
asyncInspectOk_syncIfSettled(st, a, fn) ==
  LET n == NewPromise(st, "inspectOk", a, fn, "-")
      rx == Rx("inspectOk", fn, "-", n.id, 0)
      s1 == IF st.proms[a].state = "pending"
            THEN [n.st EXCEPT !.proms[a].reactions =
                                 Append(n.st.proms[a].reactions, rx)]
            ELSE IF st.proms[a].state = "rejected"
                 THEN [n.st EXCEPT !.proms[n.id].state = "rejected",
                                   !.proms[n.id].val = st.proms[a].val]
                 ELSE LET out == inspectOk(st.heap, st.proms[a].val.id, fn)
                          s2 == [n.st EXCEPT
                                   !.log = n.st.log \o
                                     [i \in DOMAIN out.calls |->
                                        [d |-> n.id, fn |-> out.calls[i].fn,
                                         arg |-> out.calls[i].arg,
                                         raised |-> out.calls[i].raised]]]
                      IN  IF out.ret = "throw"
                          THEN [s2 EXCEPT !.proms[n.id].state = "rejected",
                                          !.proms[n.id].val = PV(Undefined)]
                          ELSE [s2 EXCEPT !.proms[n.id].state = "fulfilled",
                                          !.proms[n.id].val = RV(out.res)]
  IN  [st |-> [s1 EXCEPT !.proms[n.id].ar = TRUE], id |-> n.id]

asyncInspectOk(st, a, fn) ==
  LET t == Then(st, a, "inspectOk", fn, "-", 0) IN implementAsyncExt(t.st, t.id)

asyncInspectErr(st, a, fn) ==
  LET t == Then(st, a, "inspectErr", fn, "-", 0) IN implementAsyncExt(t.st, t.id)

\* mapErr that delegates to the wrong method of the settled Result
asyncMapErr_wrongMethod(st, a, fn) ==
  LET n == NewPromise(st, "mapErr", a, fn, "-")
      s1 == Subscribe(n.st, a, Rx("mapOk", fn, "-", n.id, 0))
  IN  [st |-> [s1 EXCEPT !.proms[n.id].ar = TRUE], id |-> n.id]

asyncMapErr(st, a, fn) ==
  LET t == Then(st, a, "mapErr", fn, "-", 0) IN implementAsyncExt(t.st, t.id)

\* mapOk that chains onto the newest AsyncResult already derived from a
\* (an interface sharing one promise variable) instead of onto a itself
asyncMapOk_chainsOnLast(st, a, fn) ==
  LET prev == {d \in DOMAIN st.proms :
                 st.proms[d].src = a /\ st.proms[d].ar
                 /\ st.proms[d].op \in {"mapOk", "mapErr", "inspectOk",
                                        "inspectErr", "andThen"}}
      on == IF prev = {} THEN a
            ELSE CHOOSE d \in prev : \A e \in prev : e <= d
      n == NewPromise(st, "mapOk", a, fn, "-")
      s1 == Subscribe(n.st, on, Rx("mapOk", fn, "-", n.id, 0))
  IN  [st |-> [s1 EXCEPT !.proms[n.id].ar = TRUE], id |-> n.id]

asyncMapOk(st, a, fn) ==
  LET t == Then(st, a, "mapOk", fn, "-", 0) IN implementAsyncExt(t.st, t.id)

\* mapOrElse / unwrapOrElse hand back the bare promise of a plain value
asyncMapOrElse(st, a, orFn, fn) == Then(st, a, "mapOrElse", fn, orFn, 0)

asyncUnwrapOrElse(st, a, fn) == Then(st, a, "unwrapOrElse", fn, "-", 0)

\* Promise.resolve(r) for a Result r: a promise already fulfilled with r
PromiseResolve(st, v, op) ==
  LET n == NewPromise(st, op, v.id, "-", "-")
  IN  [st |-> Settle(n.st, n.id, "fulfilled", v), id |-> n.id]

\* defer that turns a Failure into a rejection
defer_rejectsErr(st, r) ==
  LET n == NewPromise(st, "defer", r, "-", "-")
      s1 == IF st.heap[r].isErr
            THEN Settle(n.st, n.id, "rejected", PV(st.heap[r].error))
            ELSE Settle(n.st, n.id, "fulfilled", RV(r))
  IN  implementAsyncExt(s1, n.id)

defer(st, r) ==
  LET n == PromiseResolve(st, RV(r), "defer") IN implementAsyncExt(n.st, n.id)

\* new Promise(resolve => promise.then(v => resolve(Ok(v)))
\*                               .catch(e => resolve(Err(e))))
\* The promise `.catch` returns is dropped by the code and is not kept.
\* fromPromise that resolves its promise with p itself
fromPromise_adopt(st, p) ==
  LET o == NewPromise(st, "fromPromise", p, "-", "-")
  IN  implementAsyncExt(Resolve(o.st, o.id, PromV(p)), o.id)

\* fromPromise without the catch
fromPromise_noCatch(st, p) ==
  LET o  == NewPromise(st, "fromPromise", p, "-", "-")
      t1 == Then(o.st, p, "fpThen", "-", "-", o.id)
  IN  implementAsyncExt(t1.st, o.id)

fromPromise(st, p) ==
  LET o  == NewPromise(st, "fromPromise", p, "-", "-")
      t1 == Then(o.st, p, "fpThen", "-", "-", o.id)
      t2 == Subscribe(t1.st, t1.id, Rx("fpCatch", "-", "-", 0, o.id))
  IN  implementAsyncExt(t2, o.id)

\* ------------------------------------------------ callbacks of AsyncResult
\* value -> value callbacks
AFns == {"succ", "boom"}

\* fallback callbacks of mapOrElse
OrFns == {"const0"}

\* andThen callbacks: one returns an immediate Result, one an AsyncResult
\* (defer of a Failure), one raises
ARFns == {"okSucc", "deferErr", "boom"}

CallARFn(st, fn, x) ==
  CASE fn = "okSucc" ->
         LET o == Ok(st.heap, Succ(x))
         IN  [raised |-> FALSE, exc |-> NoExc,
              st |-> [st EXCEPT !.heap = o.heap], ret |-> RV(o.id)]
    [] fn = "deferErr" ->
         LET e == Err(st.heap, x)
             d == defer([st EXCEPT !.heap = e.heap], e.id)
         IN  [raised |-> FALSE, exc |-> NoExc, st |-> d.st, ret |-> PromV(d.id)]
    [] OTHER ->
         [raised |-> TRUE, exc |-> BoomExc, st |-> st, ret |-> NoVal]

\* a callback run by a microtask, as the log keeps it
Ran(target, fn, x, raised) ==
  [d |-> target, fn |-> fn, arg |-> x, raised |-> raised]

\* ------------------------------------------------------------- microtasks
\* a continuation that catches what the callback raised into a Failure
Delegate_catchesRaise(st, rx, out) ==
  LET st1 == [st EXCEPT
                !.heap = out.heap,
                !.log = st.log \o [i \in DOMAIN out.calls |->
                          Ran(rx.target, out.calls[i].fn, out.calls[i].arg,
                              out.calls[i].raised)]]
  IN  IF out.ret = "throw"
      THEN LET e == Err(st1.heap, Reason(out.thrown).pay)
           IN  Resolve([st1 EXCEPT !.heap = e.heap], rx.target, RV(e.id))
      ELSE Resolve(st1, rx.target,
                   IF rx.kind \in {"mapOrElse", "unwrapOrElse"}
                   THEN PV(out.val) ELSE RV(out.res))

\* the continuation of a combinator that delegates to the synchronous
\* method of the settled Result (inner => inner.method(fn))
Delegate(st, rx, out) ==
  LET st1 == [st EXCEPT
                !.heap = out.heap,
                !.log = st.log \o [i \in DOMAIN out.calls |->
                          Ran(rx.target, out.calls[i].fn, out.calls[i].arg,
                              out.calls[i].raised)]]
  IN  IF out.ret = "throw"
      THEN Settle(st1, rx.target, "rejected", Reason(out.thrown))
      ELSE Resolve(st1, rx.target,
                   IF rx.kind \in {"mapOrElse", "unwrapOrElse"}
                   THEN PV(out.val) ELSE RV(out.res))

\* andThen's continuation without the isOk test: fn runs on a Failure too
AndThenCont_eager(st, rx, r) ==
  LET x == IF st.heap[r].isOk THEN st.heap[r].value ELSE st.heap[r].error
      c == CallARFn(st, rx.fn, x)
      st1 == [c.st EXCEPT
                !.log = Append(c.st.log, Ran(rx.target, rx.fn, x, c.raised))]
  IN  IF c.raised
      THEN Settle(st1, rx.target, "rejected", Reason(c.exc))
      ELSE Resolve(st1, rx.target, c.ret)

\* the continuation andThen registers
AndThenCont(st, rx, r) ==
  IF st.heap[r].isOk
  THEN LET x == st.heap[r].value
           c == CallARFn(st, rx.fn, x)
           st1 == [c.st EXCEPT
                     !.log = Append(c.st.log, Ran(rx.target, rx.fn, x, c.raised))]
       IN  IF c.raised
           THEN Settle(st1, rx.target, "rejected", Reason(c.exc))
           ELSE Resolve(st1, rx.target, c.ret)
  ELSE LET e == Err(st.heap, st.heap[r].error)
       IN  Resolve([st EXCEPT !.heap = e.heap], rx.target, RV(e.id))

\* run continuation rx for a promise that settled `how` with v
React(st, rx, how, v) ==
  CASE rx.kind = "forward" -> Settle(st, rx.target, how, v)
    [] rx.kind = "fpThen" ->
         IF how = "fulfilled"
         THEN LET o == Ok(st.heap, v.pay)
                  st1 == Resolve([st EXCEPT !.heap = o.heap], rx.outer, RV(o.id))
              IN  Settle(st1, rx.target, "fulfilled", PV(Undefined))
         ELSE Settle(st, rx.target, how, v)
    [] rx.kind = "fpCatch" ->
         IF how = "rejected"
         THEN LET e == Err(st.heap, v.pay)
              IN  Resolve([st EXCEPT !.heap = e.heap], rx.outer, RV(e.id))
         ELSE st
    [] how = "rejected" -> Settle(st, rx.target, how, v)
    [] rx.kind = "andThen" -> AndThenCont(st, rx, v.id)
    [] rx.kind = "inspectOk" -> Delegate(st, rx, inspectOk(st.heap, v.id, rx.fn))
    [] rx.kind = "inspectErr" -> Delegate(st, rx, inspectErr(st.heap, v.id, rx.fn))
    [] rx.kind = "mapErr" -> Delegate(st, rx, mapErr(st.heap, v.id, rx.fn))
    [] rx.kind = "mapOk" -> Delegate(st, rx, mapOk(st.heap, v.id, rx.fn))
    [] rx.kind = "mapOrElse" ->
         Delegate(st, rx, mapOrElse(st.heap, v.id, rx.fn2, rx.fn))
    [] rx.kind = "unwrapOrElse" ->
         Delegate(st, rx, unwrapOrElse(st.heap, v.id, rx.fn))

\* the head of the microtask queue runs
RunJob(st) ==
  LET j == Head(st.mq)
      st1 == [st EXCEPT !.mq = Tail(st.mq)]
  IN  IF j.job = "adopt"
      THEN Subscribe(st1, j.x, j.rx)
      ELSE React(st1, j.rx, j.how, j.val)

\* ------------------------------------------------- fromAsyncFn / callAsync
\* promise-returning functions handed to fromAsyncFn / callAsync: one
\* returns a promise of the host that is still pending (it settles later,
\* either way), one raises before returning any promise
AThunks == {"pending", "throw"}

ThunkExc == [name |-> "Error", message |-> "x", cause |-> Undefined]

CallAThunk(st, fn) ==
  IF fn = "throw"
  THEN [raised |-> TRUE, exc |-> ThunkExc, st |-> st, id |-> 0]
  ELSE LET n == NewPromise(st, "raw", 0, "-", "-")
       IN  [raised |-> FALSE, exc |-> NoExc, st |-> n.st, id |-> n.id]

\* outcome of a call that hands back a promise, or raises
AReturn(o) == [st |-> o.st, id |-> o.id, ret |-> "return", thrown |-> NoExc]

AThrow(st, exc) == [st |-> st, id |-> 0, ret |-> "throw", thrown |-> exc]

\* fromAsyncFn = (fn) => (...args) => fromPromise(fn(...args))
fromAsyncFn(fn) == [wraps |-> fn]

\* the function fromAsyncFn returned, called: fn() is evaluated first, as
\* the argument of fromPromise, outside any try
fromAsyncFn_returned(st, w) ==
  LET c == CallAThunk(st, w.wraps)
  IN  IF c.raised
      THEN AThrow(st, c.exc)
      ELSE AReturn(fromPromise(c.st, c.id))

\* callAsync = (fn) => fromAsyncFn(fn)()
callAsync(st, fn) == fromAsyncFn_returned(st, fromAsyncFn(fn))

\* ------------------------------------------------------- async operations
Proms == DOMAIN proms

\* promises of the host, not made by this library
Raws == {p \in Proms : proms[p].op = "raw"}

\* promises carrying the AsyncResult interface
ARs == {p \in Proms : proms[p].ar}

\* promises made by a combinator of the AsyncResult interface
CombinatorOps ==
  {"andThen", "inspectOk", "inspectErr", "mapErr", "mapOk", "mapOrElse",
   "unwrapOrElse"}

Conts == {p \in Proms : proms[p].op \in CombinatorOps}

Commit(op, a, fn, fn2, out) ==
  /\ Len(out.st.heap) <= MaxObjs
  /\ heap' = out.st.heap
  /\ proms' = out.st.proms
  /\ mq' = out.st.mq
  /\ log' = out.st.log
  /\ last' = [op |-> op, recv |-> a, fn |-> fn, fn2 |-> fn2, arg |-> Undefined,
              other |-> out.id, msg |-> "", ret |-> out.ret, val |-> Undefined,
              res |-> 0, thrown |-> out.thrown,
              calls |-> SubSeq(out.st.log, Len(log) + 1, Len(out.st.log))]
  /\ UNCHANGED wrappers

\* a call that makes promises, within the promise budget of the run
Source(op, a, fn, fn2, out) ==
  /\ Len(out.st.proms) <= MaxProm
  /\ Commit(op, a, fn, fn2, out)

\* a step of the host: the program made no call
Host(st) ==
  /\ Len(st.heap) <= MaxObjs
  /\ heap' = st.heap
  /\ proms' = st.proms
  /\ mq' = st.mq
  /\ log' = st.log
  /\ last' = [NoCall EXCEPT !.op = "host"]
  /\ UNCHANGED wrappers

\* payloads of the Results and promises an asynchronous run starts from
AValues == {Plain(MaxVal)}

AErrors == {Tagged("SyntaxError", 0)}

AOk == \E v \in AValues :
  Commit("Ok", 0, "-", "-",
         AReturn([st |-> [Now EXCEPT !.heap = Ok(heap, v).heap], id |-> 0]))

AErr == \E e \in AErrors :
  Commit("Err", 0, "-", "-",
         AReturn([st |-> [Now EXCEPT !.heap = Err(heap, e).heap], id |-> 0]))

ADefer == \E r \in Objs :
  Source("defer", r, "-", "-", AReturn(defer(Now, r)))

\* the host hands the program a pending promise (a request in flight)
NewRaw ==
  Source("raw", 0, "-", "-", AReturn(NewPromise(Now, "raw", 0, "-", "-")))

\* the host settles one of its promises, in a task of its own (the
\* microtask queue is empty): fulfilled with a value, or rejected with one
SettleRaw == \E p \in Raws, how \in {"fulfilled", "rejected"} :
  \E v \in (IF how = "fulfilled" THEN AValues ELSE AErrors) :
    /\ proms[p].state = "pending"
    /\ mq = <<>>
    /\ Host(Settle(Now, p, how, PV(v)))

AFromPromise == \E p \in Raws :
  Source("fromPromise", p, "-", "-", AReturn(fromPromise(Now, p)))

ACallAsync == \E fn \in AThunks :
  Source("callAsync", 0, fn, "-", callAsync(Now, fn))

AFromAsyncFn == \E fn \in AThunks :
  /\ wrappers = <<>>
  /\ wrappers' = Append(wrappers, fromAsyncFn(fn))
  /\ last' = [NoCall EXCEPT !.op = "fromAsyncFn", !.fn = fn,
                            !.other = Len(wrappers) + 1]
  /\ UNCHANGED <<heap, proms, mq, log>>

AInvokeWrapped == \E w \in Wrappers :
  Source("wrappedAsync", w, wrappers[w].wraps, "-",
         fromAsyncFn_returned(Now, wrappers[w]))

AAndThen == \E a \in ARs, fn \in ARFns :
  /\ Cardinality(Conts) < MaxChain
  /\ Commit("a.andThen", a, fn, "-", AReturn(asyncAndThen(Now, a, fn)))

AInspectOk == \E a \in ARs, fn \in AFns :
  /\ Cardinality(Conts) < MaxChain
  /\ Commit("a.inspectOk", a, fn, "-", AReturn(asyncInspectOk(Now, a, fn)))

AInspectErr == \E a \in ARs, fn \in AFns :
  /\ Cardinality(Conts) < MaxChain
  /\ Commit("a.inspectErr", a, fn, "-", AReturn(asyncInspectErr(Now, a, fn)))

AMapErr == \E a \in ARs, fn \in AFns :
  /\ Cardinality(Conts) < MaxChain
  /\ Commit("a.mapErr", a, fn, "-", AReturn(asyncMapErr(Now, a, fn)))

AMapOk == \E a \in ARs, fn \in AFns :
  /\ Cardinality(Conts) < MaxChain
  /\ Commit("a.mapOk", a, fn, "-", AReturn(asyncMapOk(Now, a, fn)))

AMapOrElse == \E a \in ARs, orFn \in OrFns, fn \in AFns :
  /\ Cardinality(Conts) < MaxChain
  /\ Commit("a.mapOrElse", a, fn, orFn, AReturn(asyncMapOrElse(Now, a, orFn, fn)))

AUnwrapOrElse == \E a \in ARs, fn \in AFns :
  /\ Cardinality(Conts) < MaxChain
  /\ Commit("a.unwrapOrElse", a, fn, "-", AReturn(asyncUnwrapOrElse(Now, a, fn)))

\* the host runs the oldest pending microtask
Microtask ==
  /\ mq # <<>>
  /\ Host(RunJob(Now))

NextAsync ==
  \/ AOk
  \/ AErr
  \/ ADefer
  \/ NewRaw
  \/ SettleRaw
  \/ AFromPromise
  \/ ACallAsync
  \/ AFromAsyncFn
  \/ AInvokeWrapped
  \/ Microtask

SpecAsync == Init /\ [][NextAsync]_vars

\* one source per run, then combinators chained on it
NextLift ==
  \/ (heap = <<>> /\ AOk)
  \/ (heap = <<>> /\ AErr)
  \/ (proms = <<>> /\ ADefer)
  \/ (proms = <<>> /\ heap = <<>> /\ ACallAsync)
  \/ SettleRaw
  \/ AAndThen
  \/ AInspectOk
  \/ AInspectErr
  \/ AMapErr
  \/ AMapOk
  \/ AMapOrElse
  \/ AUnwrapOrElse
  \/ Microtask

SpecLift == Init /\ [][NextLift]_vars

\* ------------------------------------------------- properties: AsyncResult
Pending(p) == proms[p].state = "pending"

Fulfilled(p) == proms[p].state = "fulfilled"

Rejected(p) == proms[p].state = "rejected"

\* p has fulfilled with a Result object
YieldsResult(p) == Fulfilled(p) /\ proms[p].val.k = "result"

\* the Result p fulfilled with
Yield(p) == heap[proms[p].val.id]

\* same variant and same payload
SameResult(a, b) ==
  /\ a.isOk = b.isOk
  /\ a.isErr = b.isErr
  /\ a.value = b.value
  /\ a.error = b.error

Defers == {d \in Proms : proms[d].op = "defer"}

FromPromises == {o \in Proms : proms[o].op = "fromPromise"}

\* C11: for every Result r, defer(r) is fulfilled, never rejected, with a
\* Result of the same variant and the same payload as r; for r = Ok(v) the
\* Result it yields answers isOk() true and holds v.
C11_DeferRoundTrip ==
  \A d \in Defers :
    LET r == heap[proms[d].src]
    IN  /\ proms[d].ar
        /\ YieldsResult(d)
        /\ SameResult(Yield(d), r)
        /\ (r.ctor = "Ok" => isOk(heap, proms[d].val.id).val = Bool(TRUE)
                             /\ Yield(d).value = r.arg)
        /\ (r.ctor = "Err" => isErr(heap, proms[d].val.id).val = Bool(TRUE)
                              /\ Yield(d).error = r.arg)

\* both a Success and a Failure have been deferred
C11_Witness ==
  /\ \E d \in Defers : heap[proms[d].src].ctor = "Ok" /\ YieldsResult(d)
  /\ \E d \in Defers : heap[proms[d].src].ctor = "Err"

\* fromPromise(p) has not rejected; once settled, p had settled before and
\* the outcome is Ok(v) for p fulfilled with v, Err(e) for p rejected with e;
\* and once p has settled and no microtask is left, it has settled
C12_Outcome ==
  \A o \in FromPromises :
    LET p == proms[o].src
    IN  /\ proms[o].ar
        /\ ~Rejected(o)
        /\ Fulfilled(o) =>
             /\ ~Pending(p)
             /\ proms[o].val.k = "result"
             /\ Fulfilled(p) =>
                  /\ Yield(o).isOk /\ ~Yield(o).isErr
                  /\ Yield(o).value = proms[p].val.pay
             /\ Rejected(p) =>
                  /\ Yield(o).isErr /\ ~Yield(o).isOk
                  /\ Yield(o).error = proms[p].val.pay
        /\ (~Pending(p) /\ mq = <<>>) => Fulfilled(o)

\* a settled fromPromise(p) keeps its state and its Result
C12_Once ==
  \A o \in FromPromises :
    ~Pending(o) =>
      /\ proms'[o].state = proms[o].state
      /\ proms'[o].val = proms[o].val

\* C12: fromPromise(p) never rejects; if p fulfils with v it settles to
\* Ok(v), if p rejects with e (whatever e is) it settles to Err(e) holding
\* that e; it settles once, and only after p has settled.
C12_FromPromiseCatches == [](C12_Outcome) /\ [][C12_Once]_vars

\* a rejected promise has been caught into a Failure holding its reason
C12_Witness ==
  \E o \in FromPromises :
    /\ Fulfilled(o)
    /\ Rejected(proms[o].src)
    /\ Yield(o).isErr
    /\ Yield(o).error = proms[proms[o].src].val.pay

\* C15: callAsync(fn) and the function fromAsyncFn(fn) returned never let
\* an exception reach the caller, whatever fn does: the call returns an
\* AsyncResult.
C15_CallAsyncNeverThrows ==
  last.op \in {"callAsync", "wrappedAsync"} =>
    /\ last.ret = "return"
    /\ last.other \in ARs

\* the callbacks the host has run for continuation promise d
RunsFor(d) == {i \in DOMAIN log : log[i].d = d}

\* what the synchronous method of Result r answers for the call that made d
SyncOf(d, r) ==
  LET q == proms[d]
  IN  CASE q.op = "mapOk" -> mapOk(heap, r, q.fn)
        [] q.op = "mapErr" -> mapErr(heap, r, q.fn)
        [] q.op = "inspectOk" -> inspectOk(heap, r, q.fn)
        [] q.op = "inspectErr" -> inspectErr(heap, r, q.fn)
        [] q.op = "mapOrElse" -> mapOrElse(heap, r, q.fn2, q.fn)
        [] q.op = "unwrapOrElse" -> unwrapOrElse(heap, r, q.fn)

ResultOps == {"mapOk", "mapErr", "inspectOk", "inspectErr"}

PlainOps == {"mapOrElse", "unwrapOrElse"}

\* C16: with non-raising callbacks, defer(r).mapOk(f), .mapErr(f),
\* .inspectOk(f), .inspectErr(f) settle to a Result equal in variant and
\* payload to what r.mapOk(f), r.mapErr(f), r.inspectOk(f), r.inspectErr(f)
\* answer, and defer(r).mapOrElse(g, f), defer(r).unwrapOrElse(g) settle to
\* the plain values r.mapOrElse(g, f), r.unwrapOrElse(g); none rejects, and
\* each has settled once no microtask is left.
C16_Lifted ==
  \A d \in Conts :
    (/\ proms[d].op \in ResultOps \cup PlainOps
     /\ proms[d].src \in Defers
     /\ proms[d].fn # "boom"
     /\ proms[d].fn2 # "boom") =>
      LET out == SyncOf(d, proms[proms[d].src].src)
      IN  /\ out.ret = "return"
          /\ ~Rejected(d)
          /\ mq = <<>> => Fulfilled(d)
          /\ proms[d].ar = (proms[d].op \in ResultOps)
          /\ (Fulfilled(d) /\ proms[d].op \in ResultOps) =>
               /\ proms[d].val.k = "result"
               /\ SameResult(Yield(d), out.heap[out.res])
          /\ (Fulfilled(d) /\ proms[d].op \in PlainOps) =>
               /\ proms[d].val.k = "plain"
               /\ proms[d].val.pay = out.val

\* a deferred Failure has gone through mapErr and through mapOrElse, and
\* both have settled
C16_Witness ==
  /\ \E d \in Conts :
       /\ proms[d].op = "mapErr" /\ proms[d].fn = "succ"
       /\ proms[d].src \in Defers
       /\ YieldsResult(d) /\ Yield(d).isErr
       /\ Yield(d).error = Succ(heap[proms[proms[d].src].src].error)
  /\ \E d \in Conts :
       /\ proms[d].op = "mapOrElse"
       /\ proms[d].src \in Defers
       /\ Fulfilled(d) /\ proms[d].val = PV(Plain(0))

AndThens == {d \in Proms : proms[d].op = "andThen"}

\* C17: a.andThen(fn): when a settles to Err(e), fn is never run and the
\* AsyncResult returned settles to Err(e); when a settles to Ok(v), fn runs
\* once, with v, and the AsyncResult returned settles to the Result fn
\* returned, or to the Result the AsyncResult fn returned settles to; it
\* never settles to a promise. fn does not run before a has settled.
C17_AndThenFlattens ==
  \A d \in AndThens :
    LET a == proms[d].src
        fn == proms[d].fn
    IN  /\ proms[d].ar
        /\ proms[d].val.k # "promise"
        /\ Pending(a) => RunsFor(d) = {} /\ Pending(d)
        /\ (YieldsResult(a) /\ Yield(a).isErr) =>
             /\ RunsFor(d) = {}
             /\ ~Rejected(d)
             /\ Fulfilled(d) =>
                  /\ proms[d].val.k = "result"
                  /\ Yield(d).isErr /\ ~Yield(d).isOk
                  /\ Yield(d).error = Yield(a).error
        /\ (YieldsResult(a) /\ Yield(a).isOk) =>
             /\ Cardinality(RunsFor(d)) <= 1
             /\ \A i \in RunsFor(d) :
                  log[i].fn = fn /\ log[i].arg = Yield(a).value
             /\ ~Pending(d) => Cardinality(RunsFor(d)) = 1
             /\ (fn = "okSucc" /\ ~Pending(d)) =>
                  /\ YieldsResult(d)
                  /\ Yield(d).isOk /\ ~Yield(d).isErr
                  /\ Yield(d).value = Succ(Yield(a).value)
             /\ (fn = "deferErr" /\ ~Pending(d)) =>
                  /\ YieldsResult(d)
                  /\ Yield(d).isErr /\ ~Yield(d).isOk
                  /\ Yield(d).error = Yield(a).value
        /\ (~Pending(a) /\ mq = <<>>) => ~Pending(d)

\* andThen on a Success whose callback returned an AsyncResult of a
\* Failure: the returned AsyncResult has settled to that Failure
C17_Witness ==
  \E d \in AndThens :
    /\ proms[d].fn = "deferErr"
    /\ YieldsResult(proms[d].src) /\ Yield(proms[d].src).isOk
    /\ YieldsResult(d) /\ Yield(d).isErr
    /\ Cardinality(RunsFor(d)) = 1

\* C18: a callback handed to a combinator of an AsyncResult is not run
\* during the combinator call, even when the promise has already settled;
\* it is run at most once, only after the wrapped promise has settled, and
\* the callbacks registered on one AsyncResult run in registration order.
C18_DeferredOrdered ==
  /\ last.op \in {"a.andThen", "a.inspectOk", "a.inspectErr", "a.mapErr",
                  "a.mapOk", "a.mapOrElse", "a.unwrapOrElse"} =>
       /\ last.calls = <<>>
       /\ RunsFor(last.other) = {}
  /\ \A d \in Conts :
       /\ Cardinality(RunsFor(d)) <= 1
       /\ RunsFor(d) # {} => ~Pending(proms[d].src)
  /\ \A i, j \in DOMAIN log :
       (/\ proms[log[i].d].src = proms[log[j].d].src
        /\ log[i].d < log[j].d) => i < j

\* two callbacks registered on the same settled AsyncResult have both run
C18_Witness ==
  \E i, j \in DOMAIN log :
    /\ i < j
    /\ log[i].d # log[j].d
    /\ proms[log[i].d].src = proms[log[j].d].src
    /\ proms[proms[log[i].d].src].op = "defer"

\* p was built by defer or fromPromise (callAsync included) and composed
\* with callbacks that do not raise
RECURSIVE Composed(_)
Composed(p) ==
  LET q == proms[p]
  IN  CASE q.op \in {"defer", "fromPromise"} -> TRUE
        [] q.op \in CombinatorOps ->
             q.fn # "boom" /\ q.fn2 # "boom" /\ Composed(q.src)
        [] OTHER -> FALSE

\* C19: an AsyncResult built by defer, fromPromise or callAsync and
\* composed with non-raising callbacks does not reject: when its outcome
\* is a Failure it has fulfilled, and yields that Failure as a value.
C19_FailureFulfils ==
  \A p \in ARs :
    Composed(p) =>
      /\ ~Rejected(p)
      /\ Fulfilled(p) => proms[p].val.k = "result"

\* callAsync of a promise that rejected, then mapErr: both AsyncResults
\* have fulfilled with a Failure
C19_Witness ==
  \E p \in ARs :
    /\ proms[p].op = "mapErr"
    /\ proms[proms[p].src].op = "fromPromise"
    /\ Rejected(proms[proms[p].src].src)
    /\ YieldsResult(p) /\ Yield(p).isErr
    /\ YieldsResult(proms[p].src) /\ Yield(proms[p].src).isErr

\* =========================================================================
\* Globals: unsafeCatch and the wrappers of JSON.parse, JSON.stringify, URL
\* =========================================================================
\* what a platform call did: it returned a value, or it raised one (the
\* platform's own exception, or whatever a reviver, a replacer, a toJSON or
\* a toString handed to it raised)
HostReturn(v) == [raised |-> FALSE, val |-> v, thrown |-> Undefined]

HostRaise(x) == [raised |-> TRUE, val |-> Undefined, thrown |-> x]

\* one value of every class a platform call can raise
HostThrown == {x \in Thrown : x.n = 0}

HostOutcomes ==
  {HostReturn(v) : v \in Values} \cup {HostRaise(x) : x \in HostThrown}

\* parse that classifies with catch, keeping 'unknown'
parse_keepsUnknown(h, host) ==
  IF ~host.raised THEN Made(Ok(h, host.val), <<>>)
  ELSE Made(Err(h, catch(host.thrown)), <<>>)

\* JSON.parse wrapper: try { Ok(JSON.parse(...args)) }
\*                     catch (err) { Err(unsafeCatch(err)) }
parse(h, host) ==
  IF ~host.raised THEN Made(Ok(h, host.val), <<>>)
  ELSE LET c == unsafeCatch(host.thrown)
       IN  IF c.raised THEN Throw(h, c.exc, <<>>)
           ELSE Made(Err(h, c.val), <<>>)

\* JSON.stringify wrapper
stringify(h, host) ==
  IF ~host.raised THEN Made(Ok(h, host.val), <<>>)
  ELSE LET c == unsafeCatch(host.thrown)
       IN  IF c.raised THEN Throw(h, c.exc, <<>>)
           ELSE Made(Err(h, c.val), <<>>)

\* URL wrapper: try { Ok(new URL(...args)) } catch (err) { Err(unsafeCatch(err)) }
URL(h, host) ==
  IF ~host.raised THEN Made(Ok(h, host.val), <<>>)
  ELSE LET c == unsafeCatch(host.thrown)
       IN  IF c.raised THEN Throw(h, c.exc, <<>>)
           ELSE Made(Err(h, c.val), <<>>)

\* the call record keeps what the platform did in fn / arg
HostDid(host) == IF host.raised THEN "raises" ELSE "returns"

HostGave(host) == IF host.raised THEN host.thrown ELSE host.val

DoUnsafeCatch == \E x \in HostThrown :
  LET c == unsafeCatch(x)
  IN  Record("unsafeCatch", 0, "-", "-", x, 0, "",
             IF c.raised THEN Throw(heap, c.exc, <<>>)
             ELSE Return(heap, c.val, <<>>))

DoParse == \E host \in HostOutcomes :
  Record("parse", 0, HostDid(host), "-", HostGave(host), 0, "", parse(heap, host))

DoStringify == \E host \in HostOutcomes :
  Record("stringify", 0, HostDid(host), "-", HostGave(host), 0, "",
         stringify(heap, host))

DoURL == \E host \in HostOutcomes :
  Record("URL", 0, HostDid(host), "-", HostGave(host), 0, "", URL(heap, host))

NextGlobals ==
  \/ DoUnsafeCatch
  \/ DoParse
  \/ DoStringify
  \/ DoURL

SpecGlobals == Init /\ [][NextGlobals]_vars

\* C21: unsafeCatch(x) returns exactly catch(x) whenever catch(x) is not
\* tagged 'unknown', and otherwise raises x itself, unchanged and unwrapped;
\* it never returns a record tagged 'unknown'.
C21_RethrowsUnknown ==
  last.op = "unsafeCatch" =>
    /\ (\E K \in KnownTags : InstanceOf(last.arg, K)) =>
         /\ Returned
         /\ last.val = catch(last.arg)
         /\ last.val.error = last.arg
         /\ \A K \in KnownTags : last.arg.type = K => last.val.type = K
    /\ (\A K \in KnownTags : ~InstanceOf(last.arg, K)) =>
         /\ Threw
         /\ last.thrown = last.arg
    /\ Returned => last.val.type \in KnownTags

\* unsafeCatch of a number raised that number
C21_Witness ==
  /\ last.op = "unsafeCatch"
  /\ last.arg = [type |-> "plain", n |-> 0]
  /\ Threw
  /\ last.thrown = [type |-> "plain", n |-> 0]

WrapperOps == {"parse", "stringify", "URL"}

\* the tag each wrapper's signature declares for its Failure
DeclaredTag(op) == IF op = "parse" THEN "SyntaxError" ELSE "TypeError"

\* C22: parse, stringify and URL return a Success holding the platform
\* call's result when it does not raise; when it raises, the Failure they
\* return carries the tag of their signature ('SyntaxError' for parse,
\* 'TypeError' for stringify and URL), whatever was raised.
C22_DeclaredTag ==
  last.op \in WrapperOps =>
    /\ last.fn = "returns" =>
         /\ Returned
         /\ heap[last.res].isOk /\ ~heap[last.res].isErr
         /\ heap[last.res].value = last.arg
    /\ (last.fn = "raises" /\ Returned) =>
         /\ heap[last.res].isErr /\ ~heap[last.res].isOk
         /\ heap[last.res].error.type = DeclaredTag(last.op)

\* C23: when the platform call wrapped by parse, stringify or URL raises a
\* value of no known kind, the wrapper raises that same value to its caller
\* and builds no Result; a Failure a wrapper returns is never tagged
\* 'unknown', and holds the value that was raised.
C23_WrapperRethrows ==
  (last.op \in WrapperOps /\ last.fn = "raises") =>
    /\ (\A K \in KnownTags : ~InstanceOf(last.arg, K)) =>
         /\ Threw
         /\ last.thrown = last.arg
         /\ last.res = 0
    /\ Returned =>
         /\ heap[last.res].isErr
         /\ heap[last.res].error.type \in KnownTags
         /\ heap[last.res].error.error = last.arg
         /\ InstanceOf(last.arg, heap[last.res].error.type)

\* a reviver raised a number and parse raised that number
C23_Witness ==
  /\ last.op = "parse"
  /\ last.fn = "raises"
  /\ last.arg = [type |-> "plain", n |-> 0]
  /\ Threw
  /\ last.thrown = [type |-> "plain", n |-> 0]

\* C27: a value that is an instance of one of the specific kinds, a user
\* subclass included, is tagged with that kind and never 'Error'; 'Error'
\* is the tag only of instances of Error that are instances of no specific
\* kind.
C27_SpecificFirst ==
  last.op = "catch" =>
    /\ \A K \in SpecificKinds :
         InstanceOf(last.arg, K) => last.val.type = K
    /\ last.val.type = "Error" <=>
         (/\ InstanceOf(last.arg, "Error")
          /\ \A K \in SpecificKinds : ~InstanceOf(last.arg, K))

\* an instance of a user subclass of TypeError came back tagged 'TypeError'
C27_Witness ==
  /\ last.op = "catch"
  /\ last.arg.type = "MyTypeError"
  /\ last.val.type = "TypeError"

\* =========================================================================
\* Globals.fetch
\* =========================================================================
\* fetch = (...args) => Result.fromPromise(globalThis.fetch(...args))
\*   .mapErr(errorHandlers.unsafeCatch).mapErr(narrow)
\* The platform's fetch hands back a pending promise.
fetch(st) ==
  LET p  == NewPromise(st, "raw", 0, "-", "-")
      a  == fromPromise(p.st, p.id)
      m1 == asyncMapErr(a.st, a.id, "unsafeCatch")
  IN  asyncMapErr(m1.st, m1.id, "narrow")

\* what the platform rejects a request with when nobody aborted it: a
\* TypeError (network failure, bad arguments) or a DOMException
FetchRejects == {[type |-> "TypeError", n |-> 0], DOMExc("NotAllowedError")}

\* what an aborted request is rejected with: the signal's abort reason,
\* which is an 'AbortError' DOMException for abort(), a 'TimeoutError'
\* DOMException for a timeout signal, and the caller's value for abort(reason)
DefaultAbortReason == DOMExc("AbortError")

AbortReasons ==
  {DefaultAbortReason, DOMExc("TimeoutError"),
   [type |-> "RangeError", n |-> 0], [type |-> "plain", n |-> 0]}

Requests == {p \in Raws : Pending(p)}

\* requests made in one run
MaxFetch == 2

AFetch ==
  /\ Cardinality(Raws) < MaxFetch
  /\ Commit("fetch", 0, "-", "-", AReturn(fetch(Now)))

\* the response arrives
FetchFulfil == \E p \in Requests, v \in Values :
  /\ mq = <<>>
  /\ Host(Settle(Now, p, "fulfilled", PV(v)))

\* the request fails
FetchReject == \E p \in Requests, x \in FetchRejects :
  /\ mq = <<>>
  /\ Host(Settle(Now, p, "rejected", PV(x)))

\* the caller aborts the controller while the request is pending; the
\* promise of the request keeps in fn that its signal was aborted
AAbort == \E p \in Requests, reason \in AbortReasons :
  Commit("abort", p, "-", "-",
         AReturn([st |-> Settle([Now EXCEPT !.proms[p].fn = "aborted"],
                                p, "rejected", PV(reason)),
                  id |-> 0]))

NextFetch ==
  \/ AFetch
  \/ FetchFulfil
  \/ FetchReject
  \/ AAbort
  \/ Microtask

SpecFetch == Init /\ [][NextFetch]_vars

\* the AsyncResults fetch returned, and the request each one wraps
Fetches == {f \in Proms : proms[f].op = "mapErr" /\ proms[f].fn = "narrow"}

RequestOf(f) == proms[proms[proms[f].src].src].src

Aborted(p) == proms[p].fn = "aborted"

\* what the platform rejected request p with
RejectionOf(p) == proms[p].val.pay

\* C24: when the controller is aborted while the request is pending, the
\* AsyncResult fetch returned does not reject and does not settle to a
\* Success; it fulfils with a Failure of type 'AbortError' whose error is
\* the value the platform rejected with.
C24_AbortIsFailure ==
  \A f \in Fetches :
    Aborted(RequestOf(f)) =>
      /\ ~Rejected(f)
      /\ Fulfilled(f) =>
           /\ proms[f].val.k = "result"
           /\ Yield(f).isErr /\ ~Yield(f).isOk
           /\ Yield(f).error.type = "AbortError"
           /\ Yield(f).error.error = RejectionOf(RequestOf(f))

\* C25: on rejection with a DOMException the Failure is tagged by the
\* exception's own kind: 'AbortError' for an abort exception,
\* 'NotAllowedError' for a not-allowed exception; with any other
\* DOMException the AsyncResult rejects with that exception; a DOMException
\* that is not an abort exception is never tagged 'AbortError'.
C25_NarrowsByKind ==
  \A f \in Fetches :
    LET p == RequestOf(f)
        x == RejectionOf(p)
    IN  (Rejected(p) /\ InstanceOf(x, "DOMException") /\ ~Pending(f)) =>
          /\ x.name = "AbortError" =>
               YieldsResult(f) /\ Yield(f).isErr
               /\ Yield(f).error.type = "AbortError"
          /\ x.name = "NotAllowedError" =>
               YieldsResult(f) /\ Yield(f).isErr
               /\ Yield(f).error.type = "NotAllowedError"
          /\ x.name \notin {"AbortError", "NotAllowedError"} =>
               Rejected(f) /\ proms[f].val = PV(x)
          /\ (x.name # "AbortError" /\ YieldsResult(f)) =>
               Yield(f).error.type # "AbortError"

FetchErrorTags == {"AbortError", "NotAllowedError", "TypeError"}

\* C29: every Failure the AsyncResult of fetch settles to has an error
\* record whose type is 'AbortError', 'NotAllowedError' or 'TypeError',
\* whatever the platform rejected with.
C29_FetchErrorTags ==
  \A f \in Fetches :
    (YieldsResult(f) /\ Yield(f).isErr) =>
      Yield(f).error.type \in FetchErrorTags

UnwrapOps == {"unwrap", "unwrapErr", "expect", "expectErr"}

\* C26: with callbacks that do not raise, the only calls that raise to the
\* caller are unwrap / unwrapErr / expect / expectErr on the wrong variant
\* and a classifier miss (unsafeCatch, or a wrapper built on it, given a
\* value of no known kind); no AsyncResult rejects otherwise: every other
\* failure of a wrapped function or promise comes back as a Failure.
C26_ClosedRaisers ==
  /\ Threw =>
       \/ last.op \in UnwrapOps
       \/ /\ last.op \in WrapperOps \cup {"unsafeCatch"}
          /\ \A K \in KnownTags : ~InstanceOf(last.arg, K)
       \/ \E i \in DOMAIN last.calls : last.calls[i].raised
  /\ \A p \in ARs : Composed(p) => ~Rejected(p)

\* what continuation d must settle with, given the Result its receiver
\* fulfilled with and its own callback
Settles(d, out) ==
  IF out.ret = "throw"
  THEN Rejected(d) /\ proms[d].val = Reason(out.thrown)
  ELSE /\ Fulfilled(d)
       /\ proms[d].op \in ResultOps =>
            /\ proms[d].val.k = "result"
            /\ SameResult(Yield(d), out.heap[out.res])
       /\ proms[d].op \in PlainOps => proms[d].val = PV(out.val)

\* every settled continuation derived from a settled AsyncResult has the
\* outcome its own method and callback give on that AsyncResult's Result
C28_Siblings ==
  \A d \in Conts :
    LET a == proms[d].src
    IN  (/\ proms[d].op \in ResultOps \cup PlainOps
         /\ YieldsResult(a)) =>
          /\ ~Pending(d) => Settles(d, SyncOf(d, proms[a].val.id))
          /\ mq = <<>> => ~Pending(d)

\* a settled AsyncResult keeps its state, and the Result it yields keeps
\* its guards and payload, whatever is derived from it
C28_Frame ==
  \A a \in ARs :
    ~Pending(a) =>
      /\ proms'[a].state = proms[a].state
      /\ proms'[a].val = proms[a].val
      /\ proms[a].val.k = "result" =>
           heap'[proms[a].val.id] = heap[proms[a].val.id]

\* C28: several chains derived from one AsyncResult a, in any order and
\* interleaved with a's settlement, leave a's settled Result unchanged, and
\* each derived one settles to what a's Result and its own callback
\* determine, whatever the sibling chains are.
C28_Independent == [](C28_Siblings) /\ [][C28_Frame]_vars

\* a Failure went through mapErr and then through mapOk, both derived from
\* the same AsyncResult: the second still sees the original error
C28_Witness ==
  \E d1, d2 \in Conts :
    /\ d1 < d2
    /\ proms[d1].src = proms[d2].src
    /\ proms[d1].op = "mapErr" /\ proms[d1].fn = "succ"
    /\ proms[d2].op = "mapOk"
    /\ YieldsResult(proms[d1].src) /\ Yield(proms[d1].src).isErr
    /\ YieldsResult(d1) /\ YieldsResult(d2)
    /\ Yield(d2).error = Yield(proms[d1].src).error
    /\ Yield(d1).error # Yield(d2).error

\* C30: when a callback handed to a combinator raises x as it runs, the
\* promise of that combinator rejects with x (it holds no Failure); every
\* combinator chained after it rejects with x too and its callback is not
\* run; the receiver keeps its settled Result.
C30_RaisePropagates ==
  \A d \in Conts :
    LET a == proms[d].src
    IN  /\ (\E i \in RunsFor(d) : log[i].raised) =>
             /\ Rejected(d)
             /\ proms[d].val = Reason(BoomExc)
             /\ YieldsResult(a)
        /\ Rejected(a) =>
             /\ RunsFor(d) = {}
             /\ ~Fulfilled(d)
             /\ Rejected(d) => proms[d].val = proms[a].val
             /\ mq = <<>> => Rejected(d)
        /\ Rejected(d) =>
             \/ Rejected(a)
             \/ \E i \in RunsFor(d) : log[i].raised

\* mapOk's callback raised, and the mapErr chained after it rejected with
\* the same value without running its own callback
C30_Witness ==
  \E d1, d2 \in Conts :
    /\ proms[d2].src = d1
    /\ proms[d1].op = "mapOk" /\ proms[d1].fn = "boom"
    /\ proms[d2].op = "mapErr" /\ proms[d2].fn = "succ"
    /\ \E i \in RunsFor(d1) : log[i].raised
    /\ Rejected(d1) /\ Rejected(d2)
    /\ proms[d2].val = proms[d1].val
    /\ RunsFor(d2) = {}

====
